---- MODULE Spec2Model ----
(***************************************************************************)
(* The PDF specification assistant: batched key extraction,                *)
(* LLMKeyExtractor.extract_keys and LLMKeyExtractor._extract_keys_batch    *)
(* (backend/services/llm_key_extractor.py), and the conversion of a PDF    *)
(* into text with identifiers, is_line_in_any_table, process_single_page   *)
(* and process_single_pdf (backend/services/process_pdfs.py).              *)
(*                                                                         *)
(* One behaviour is one call of extract_keys.  The model's structured      *)
(* response of a batch call is a list of items (key_name, result); a       *)
(* failing call raises.  Python lists are sequences (index 1 here is       *)
(* index 0 there), dicts are functions whose domain is the key set.        *)
(*                                                                         *)
(* Spec is one call of extract_keys with its concurrent batch tasks;       *)
(* SpecDocs is the same call with the document list as an input and the    *)
(* batches run one at a time; SpecLive is Spec with the fairness of the    *)
(* event loop; SpecBatch is one call of _extract_keys_batch on its own.    *)
(* SpecGeom is one call of is_line_in_any_table, SpecPage one call of      *)
(* process_single_page and SpecPdf one call of process_single_pdf.  The    *)
(* text a page or a document is formatted into is the sequence of its      *)
(* parts: banners, identifier markers, texts, separators and line ends.    *)
(*                                                                         *)
(* SpecStream is one request of ask_question_stream (backend/routers/      *)
(* llm.py): LLMKeyExtractor.answer_question_stream and the event_generator *)
(* that iterates it, a step for every chunk of the model, under the        *)
(* fairness of the event loop.  SpecDeps is a sequence of calls of         *)
(* get_llm_extractor and reset_llm_extractor (backend/dependencies.py),    *)
(* each call one step.  A value that can be None is the empty tuple when   *)
(* it is None and a tuple of one element otherwise.                        *)
(***************************************************************************)
EXTENDS Integers, Sequences, FiniteSets, TLC

\* ----------------------------------------------------------------- bounds
MaxKeys == 3
MaxBatchSize == 2
MaxConcurrent == 2
MaxItems == 2
MaxDocs == 2
MaxLiveKeys == 2
MaxCoord == 2
MaxTables == 2
MaxLines == 2
MaxPages == 2
MaxChunks == 3
MaxHistory == 2
MaxCalls == 5

\* key names a request or a model response may carry, and result payloads
Keys == {"k1", "k2"}
Results == {"v1"}
Null == "null"

\* None and a value that is not None, for values that are not strings
None == <<>>
Some(v) == <<v>>

VARIABLES
    \* one call of extract_keys
    key_names,          \* argument: the requested key names, in order
    batch_size,         \* argument: keys per batch
    max_concurrent,     \* the configured concurrency ceiling
    pc,                 \* "off", "init", "running", "returned", "raised"
    batches,            \* the planned batches
    semaphore,          \* asyncio.Semaphore._value
    task,               \* per batch: "waiting", "calling", "done"
    call,               \* per batch: "none", "ok", "failed" (the model call)
    batch_results_list, \* per batch: the outcome map (empty until done)
    finished,           \* batch indices in completion order
    merged_results,     \* the returned map
    pdf_data,           \* argument: the documents, in order
    requests,           \* per batch: the prompt sent to the model (empty until sent)
    model_calls,        \* per batch: the number of model calls issued
    \* one call of _extract_keys_batch
    batch_pc,           \* "off", "calling", "ok", "failed"
    batch_key_names,    \* argument: the key names of the batch
    multi_result,       \* the items of the model's structured response
    results_by_key,     \* the returned outcome map
    \* one call of is_line_in_any_table
    geom_pc,            \* "off", "called", "true", "false" (the returned value)
    line_arg,           \* argument: the text line
    tables_arg,         \* argument: the tables of the page
    \* one call of process_single_page
    page_pc,            \* "off", "called", "returned", "raised"
    page_arg,           \* argument: the page
    page_number_arg,    \* argument: the 1-based page number
    page_data,          \* the returned dictionary
    \* one call of process_single_pdf
    pdf_pc,             \* "off", "called", "pages", "returned"
    pdf_source,         \* argument: the source and the pages it opens to
    filename_arg,       \* argument: the optional display name
    display_name,       \* the name shown in the document header
    total_pages,        \* len(pdf.pages)
    page_i,             \* the loop variable i of the page loop
    pages_data,         \* the pages extracted so far
    aggregated_formatted_parts, \* the parts of the document text so far
    aggregated_line_id_map,     \* the merged id map so far
    logged_errors,      \* page numbers of the logged page errors
    document,           \* the returned dictionary
    \* one request of ask_question_stream: answer_question_stream and the
    \* event_generator that iterates it
    conversation_history, \* argument: the earlier messages, in order
    model_chunks,       \* what qa_llm.astream produces, in order
    model_raises,       \* whether astream raises after these chunks
    qa_pc,              \* "off", "called", "streaming", "completed", "raised"
    chunk_i,            \* the number of model chunks consumed
    first_chunk,        \* the local flag of answer_question_stream
    system_message_to_return, \* None or the new system message
    messages,           \* the message list sent to the model
    yielded,            \* the tuples yielded to the caller, in order
    sse_pc,             \* "off", "waiting", "handling", "done", "error"
    events,             \* the server-sent events, in order
    \* the module state of dependencies.py
    api_key_set,        \* whether OPENAI_API_KEY is configured
    llm_extractor,      \* _llm_extractor: None or the instance
    llm_extractor_initialized, \* _llm_extractor_initialized
    constructed,        \* the number of LLMKeyExtractor constructions begun
    call_log            \* the calls so far and what each did

extractVars == <<key_names, batch_size, max_concurrent, pc, batches, semaphore,
                 task, call, batch_results_list, finished, merged_results,
                 pdf_data, requests, model_calls>>

batchVars == <<batch_pc, batch_key_names, multi_result, results_by_key>>

geomVars == <<geom_pc, line_arg, tables_arg>>

pageVars == <<page_pc, page_arg, page_number_arg, page_data>>

pdfVars == <<pdf_pc, pdf_source, filename_arg, display_name, total_pages,
             page_i, pages_data, aggregated_formatted_parts,
             aggregated_line_id_map, logged_errors, document>>

streamVars == <<conversation_history, model_chunks, model_raises, qa_pc,
                chunk_i, first_chunk, system_message_to_return, messages,
                yielded, sse_pc, events>>

depsVars == <<api_key_set, llm_extractor, llm_extractor_initialized,
              constructed, call_log>>

pdfSideVars == <<geomVars, pageVars, pdfVars>>

nonExtractVars == <<batchVars, geomVars, pageVars, pdfVars, streamVars,
                    depsVars>>

llmVars == <<extractVars, batchVars, streamVars, depsVars>>

vars == <<extractVars, batchVars, geomVars, pageVars, pdfVars, streamVars,
          depsVars>>

\* ---------------------------------------------------------------- helpers
Range(s) == {s[j] : j \in DOMAIN s}

SeqsUpTo(S, n) == UNION {[1..m -> S] : m \in 0..n}

MaxOf(S) == CHOOSE x \in S : \A y \in S : y <= x

MinOf(a, b) == IF a <= b THEN a ELSE b

EmptyDict == [k \in {} |-> Null]

\* range(0, stop, step) for step # 0, as the sequence of its values
RECURSIVE RangeFrom(_, _, _)
RangeFrom(i, stop, step) ==
    IF step > 0 /\ i < stop
    THEN <<i>> \o RangeFrom(i + step, stop, step)
    ELSE <<>>

PyRange(stop, step) == RangeFrom(0, stop, step)

\* s[lo:hi] for 0 <= lo: the slice stops at the end of the list
PySlice(s, lo, hi) == SubSeq(s, lo + 1, MinOf(hi, Len(s)))

\* a slice one short: key_names[i : i + batch_size - 1]
SplitBatchesShortSlice(names, size) ==
    LET starts == PyRange(Len(names), size)
    IN  [j \in 1..Len(starts) |-> PySlice(names, starts[j], starts[j] + size - 1)]

\* [key_names[i : i + batch_size] for i in range(0, len(key_names), batch_size)]
SplitBatches(names, size) ==
    LET starts == PyRange(Len(names), size)
    IN  [j \in 1..Len(starts) |-> PySlice(names, starts[j], starts[j] + size)]

\* a semaphore with one permit too many
NewSemaphoreOneMore(n) == n + 1

\* a semaphore created without a permit
NewSemaphoreNoPermit(n) == 0

\* the permit is not given back
ReleaseSkipped(value) == value

\* the exit of `async with semaphore`, on return and on exception
Release(value) == value + 1

\* asyncio.Semaphore(max_concurrent)
NewSemaphore(n) == n

\* {item.key_name: item.result for item in multi_result.items}: the last item
\* of a key name wins
ResultsByKey(items) ==
    [k \in {items[j].key_name : j \in DOMAIN items} |->
        items[MaxOf({j \in DOMAIN items : items[j].key_name = k})].result]

\* the reconciliation loop left out
EnsureRequestedSkipped(by_key, names) == by_key

\* the reconciliation loop without its condition: every requested key reset
EnsureRequestedOverwrites(by_key, names) ==
    [k \in DOMAIN by_key \cup Range(names) |->
        IF k \in Range(names) THEN Null ELSE by_key[k]]

\* for key_name in key_names: if key_name not in results_by_key: ... = None
EnsureRequested(by_key, names) ==
    [k \in DOMAIN by_key \cup Range(names) |->
        IF k \in DOMAIN by_key THEN by_key[k] ELSE Null]

\* _extract_keys_batch, the try branch
ExtractKeysBatchTry(names, items) == EnsureRequested(ResultsByKey(items), names)

\* an except branch that returns an empty map
ExceptReturnsEmpty(names) == [raised |-> FALSE, value |-> EmptyDict]

\* an except branch that logs and re-raises
ExceptReraises(names) == [raised |-> TRUE, value |-> EmptyDict]

\* _extract_keys_batch, the except branch: logs and returns, never re-raises
ExtractKeysBatchExcept(names) ==
    [raised |-> FALSE, value |-> [k \in Range(names) |-> Null]]

\* dict.update
DictUpdate(d, e) ==
    [k \in DOMAIN d \cup DOMAIN e |-> IF k \in DOMAIN e THEN e[k] ELSE d[k]]

\* merged_results = {}; for batch_results in list: merged_results.update(...)
RECURSIVE MergeFrom(_, _)
MergeFrom(acc, list) ==
    IF list = <<>> THEN acc
    ELSE MergeFrom(DictUpdate(acc, Head(list)), Tail(list))

MergeResults(list) == MergeFrom(EmptyDict, list)

\* results collected as the tasks complete
GatherOrderAsCompleted(n, done_order) == done_order

\* asyncio.gather returns the results in the order of its arguments, whatever
\* the order the tasks finished in
GatherOrder(n, done_order) == [i \in 1..n |-> i]

Gather(results, done_order) ==
    LET order == GatherOrder(Len(results), done_order)
    IN  [i \in 1..Len(results) |-> results[order[i]]]

\* the documents: dicts of process_single_pdf, formatted_text as a sequence of
\* text pieces
DocA == [filename |-> "a.pdf", formatted_text |-> <<"A1", "A2">>]
DocB == [filename |-> "b.pdf", formatted_text |-> <<"B1">>]
Docs == {DocA, DocB}
DocLists == SeqsUpTo(Docs, MaxDocs)

\* pdf.get("formatted_text", "")
FormattedTextOf(pdf) ==
    IF "formatted_text" \in DOMAIN pdf THEN pdf.formatted_text ELSE <<>>

\* a context built from the first document only
BuildPdfContextFirstOnly(docs) ==
    IF docs = <<>> THEN <<>> ELSE FormattedTextOf(Head(docs))

\* "".join(pdf.get("formatted_text", "") for pdf in pdf_data)
RECURSIVE BuildPdfContext(_)
BuildPdfContext(docs) ==
    IF docs = <<>> THEN <<>>
    ELSE FormattedTextOf(Head(docs)) \o BuildPdfContext(Tail(docs))

\* the prompt of a batch call: the keys section lists the batch's key names,
\* the context is built from all documents
BatchPrompt(names, docs) ==
    [keys_section |-> names, full_context |-> BuildPdfContext(docs)]

NoPrompt == [keys_section |-> <<>>, full_context |-> <<>>]

\* a failed batch retried key by key
RetryPerKey(n, names) == n + Len(names)

\* the except branch issues no further model call
CallsAfterFailure(n, names) == n

\* a completion log without the average
CompletionLogNeverRaises(n) == FALSE

\* the completion log divides by len(batches): ZeroDivisionError without batches
CompletionLogRaises(n) == n = 0

\* the structured responses a model call may return
Item == [key_name : Keys, result : Results \cup {Null}]
Responses == SeqsUpTo(Item, MaxItems)

\* the outcome maps a successful call of a batch may produce, per batch
OutcomesByBatch ==
    [names \in SeqsUpTo(Keys, MaxBatchSize) |->
        {ExtractKeysBatchTry(names, items) : items \in Responses}]

BatchOutcomes(names) == OutcomesByBatch[names]

\* ------------------------------------------------ helpers of process_pdfs
\* coordinates of a page are never negative; None among them is this value
NoneCoord == -1

CoordKeys == {"x0", "top", "x1", "bottom"}
Coords == 0..MaxCoord

\* line.get(key, 0)
LineGet(line, key) == IF key \in DOMAIN line THEN line[key] ELSE 0

\* line.get("text", "")
LineText(line) == IF "text" \in DOMAIN line THEN line.text ELSE ""

\* (a + b) / 2 of true division, as the exact fraction
Half(n) == [num |-> n, den |-> 2]

\* center >= t and center <= t for a fraction and a coordinate
AtLeast(q, t) == q.num >= t * q.den
AtMost(q, t) == q.num <= t * q.den

\* the comparison without the boundary
CenterInOpenBBox(line_center_x, line_center_y, bbox) ==
    /\ line_center_x.num > bbox[1] * line_center_x.den
    /\ line_center_x.num < bbox[3] * line_center_x.den
    /\ line_center_y.num > bbox[2] * line_center_y.den
    /\ line_center_y.num < bbox[4] * line_center_y.den

\* line_center_x >= t_x0 and line_center_x <= t_x1 and
\* line_center_y >= t_top and line_center_y <= t_bottom
CenterInBBox(line_center_x, line_center_y, bbox) ==
    /\ AtLeast(line_center_x, bbox[1])
    /\ AtMost(line_center_x, bbox[3])
    /\ AtLeast(line_center_y, bbox[2])
    /\ AtMost(line_center_y, bbox[4])

\* is_line_in_any_table
IsLineInAnyTable(line, tables) ==
    LET l_x0 == LineGet(line, "x0")
        l_top == LineGet(line, "top")
        l_x1 == LineGet(line, "x1")
        l_bottom == LineGet(line, "bottom")
    IN  IF \/ l_x0 = NoneCoord
           \/ l_top = NoneCoord
           \/ l_x1 = NoneCoord
           \/ l_bottom = NoneCoord
        THEN FALSE
        ELSE \E j \in DOMAIN tables :
                CenterInBBox(Half(l_x0 + l_x1), Half(l_top + l_bottom),
                             tables[j].bbox)

\* one part of a formatted text
Part(kind, val) == [kind |-> kind, val |-> val]
Newline == Part("newline", "")

\* d[k] = v
DictSet(d, k, v) == [x \in DOMAIN d \cup {k} |-> IF x = k THEN v ELSE d[x]]

\* an identifier that leaves the page number out
LineIdWithoutPage(page_number, line_index) == ToString(line_index)

\* f"{page_number}_{line_index}"
LineId(page_number, line_index) ==
    ToString(page_number) \o "_" \o ToString(line_index)

\* the identifier with the row and the column index exchanged
CellIdColumnFirst(page_number, table_index, row_idx, col_idx) ==
    ToString(page_number) \o "_t" \o ToString(table_index)
        \o "_r" \o ToString(col_idx) \o "_c" \o ToString(row_idx)

\* f"{page_number}_t{table_index}_r{row_idx}_c{col_idx}"
CellId(page_number, table_index, row_idx, col_idx) ==
    ToString(page_number) \o "_t" \o ToString(table_index)
        \o "_r" \o ToString(row_idx) \o "_c" \o ToString(col_idx)

\* [line.get("x0", 0), line.get("top", 0), line.get("x1", 0), line.get("bottom", 0)]
LineBBox(line) ==
    <<LineGet(line, "x0"), LineGet(line, "top"),
      LineGet(line, "x1"), LineGet(line, "bottom")>>

\* the box of the cell itself
CellOwnBBox(row_obj, col_idx) == row_obj.cells[col_idx + 1]

\* list(row_bbox), with row_bbox = row_obj.bbox
CellRowBBox(row_obj, col_idx) == row_obj.bbox

\* the loop with an index that grows for every line, kept or not
RECURSIVE TextLinesIndexEveryLine(_, _, _, _, _, _)
TextLinesIndexEveryLine(text_lines, tables, page_number, j, line_index, out) ==
    IF j > Len(text_lines) THEN out
    ELSE LET line == text_lines[j]
             line_id == LineId(page_number, line_index)
         IN  IF IsLineInAnyTable(line, tables)
             THEN TextLinesIndexEveryLine(text_lines, tables, page_number,
                     j + 1, line_index + 1, out)
             ELSE TextLinesIndexEveryLine(text_lines, tables, page_number,
                     j + 1, line_index + 1,
                     [formatted_parts |-> out.formatted_parts \o
                         <<Part("line_id", line_id),
                           Part("text", LineText(line)), Newline>>,
                      line_id_map |->
                         DictSet(out.line_id_map, line_id, LineBBox(line))])

\* the loop over text_lines, from the line at position j on
RECURSIVE TextLines(_, _, _, _, _, _)
TextLines(text_lines, tables, page_number, j, line_index, out) ==
    IF j > Len(text_lines) THEN out
    ELSE LET line == text_lines[j]
             line_id == LineId(page_number, line_index)
         IN  IF IsLineInAnyTable(line, tables)
             THEN TextLines(text_lines, tables, page_number, j + 1,
                            line_index, out)
             ELSE TextLines(text_lines, tables, page_number, j + 1,
                     line_index + 1,
                     [formatted_parts |-> out.formatted_parts \o
                         <<Part("line_id", line_id),
                           Part("text", LineText(line)), Newline>>,
                      line_id_map |->
                         DictSet(out.line_id_map, line_id, LineBBox(line))])

\* the loop over the cells of one row, from column col_idx on
RECURSIVE RowCells(_, _, _, _, _, _, _)
RowCells(row_cells_text, row_obj, page_number, table_index, row_idx, col_idx, out) ==
    IF col_idx >= Len(row_cells_text) THEN out
    ELSE LET cell_text == row_cells_text[col_idx + 1]
             cell_id == CellId(page_number, table_index, row_idx, col_idx)
             cell_text_str == IF cell_text = Null THEN "" ELSE cell_text
             joint == IF col_idx = 0 THEN <<>> ELSE <<Part("sep", " | ")>>
         IN  RowCells(row_cells_text, row_obj, page_number, table_index,
                 row_idx, col_idx + 1,
                 [formatted_parts |-> out.formatted_parts \o joint \o
                     <<Part("cell_id", cell_id), Part("text", cell_text_str)>>,
                  line_id_map |->
                     DictSet(out.line_id_map, cell_id,
                             CellRowBBox(row_obj, col_idx))])

\* the loop over zip(table_data, rows), from row row_idx on
RECURSIVE TableRows(_, _, _, _, _, _)
TableRows(table_data, rows, page_number, table_index, row_idx, out) ==
    IF row_idx >= MinOf(Len(table_data), Len(rows)) THEN out
    ELSE LET row == RowCells(table_data[row_idx + 1], rows[row_idx + 1],
                             page_number, table_index, row_idx, 0, out)
         IN  TableRows(table_data, rows, page_number, table_index,
                 row_idx + 1,
                 [row EXCEPT !.formatted_parts = @ \o <<Newline>>])

\* the loop over enumerate(tables), from table table_index on
RECURSIVE Tables(_, _, _, _)
Tables(tables, page_number, table_index, out) ==
    IF table_index >= Len(tables) THEN out
    ELSE LET table_obj == tables[table_index + 1]
             rows == table_obj.rows
             label == Part("table_label",
                           ToString(table_index + 1) \o " on Page "
                               \o ToString(page_number))
         IN  IF rows = <<>>
             THEN Tables(tables, page_number, table_index + 1, out)
             ELSE LET table == TableRows(table_obj.extract, rows, page_number,
                                table_index, 0,
                                [out EXCEPT !.formatted_parts = @ \o <<label>>])
                  IN  Tables(tables, page_number, table_index + 1,
                          [table EXCEPT !.formatted_parts = @ \o <<Newline>>])

\* find_tables, extract_text_lines or the extract of a table with rows raises
PageRaises(page) ==
    \/ ~page.readable
    \/ \E j \in DOMAIN page.tables :
          page.tables[j].rows # <<>> /\ page.tables[j].extract_raises

\* process_single_page when nothing raises
ProcessSinglePage(page, page_number) ==
    LET tables == page.tables
        text_lines == page.text_lines
        banners == <<Part("page_banner", ToString(page_number)),
                     Part("text_banner", "")>>
        texts == TextLines(text_lines, tables, page_number, 1, 0,
                     [formatted_parts |-> banners, line_id_map |-> EmptyDict])
        parts == IF tables = <<>> THEN texts
                 ELSE Tables(tables, page_number, 0,
                          [texts EXCEPT !.formatted_parts =
                              @ \o <<Part("tables_banner", "")>>])
    IN  [page_number |-> page_number,
         formatted_text |-> parts.formatted_parts,
         line_id_map |-> parts.line_id_map]

\* a page that was not extracted
NoPageData ==
    [page_number |-> 0, formatted_text |-> <<>>, line_id_map |-> EmptyDict]

\* the display name of a document
DisplayName(source, filename) ==
    IF filename # Null /\ filename # "" THEN filename
    ELSE IF source.kind = "path" THEN source.name
    ELSE "document.pdf"

\* the document header
DocumentHeader(name, pages) ==
    <<Part("document", name), Part("total_pages", ToString(pages))>>

\* the text of a page is put in front of the parts
PrependPageText(parts, page_text) == page_text \o parts

\* aggregated_formatted_parts.append(page_data["formatted_text"])
AppendPageText(parts, page_text) == parts \o page_text

\* the page loop is left at the first page that raises
StopAfterFailure(i, pages) == pages + 1

\* except Exception: the error is logged and the loop goes on with page i + 1
ContinueAfterFailure(i, pages) == i + 1

\* the id map of a page is left out of the merged map
AggregatedMapKept(merged, page_map) == merged

\* aggregated_line_id_map.update(page_data["line_id_map"])
AggregatedMapUpdate(merged, page_map) == DictUpdate(merged, page_map)

\* no document is returned yet
NoDocument ==
    [filename |-> "", total_pages |-> 0, pages |-> <<>>,
     formatted_text |-> <<>>, line_id_map |-> EmptyDict]

\* --------------------------------------------------- inputs of process_pdfs
\* text lines: every coordinate is present, None or a number
GeomLines ==
    UNION {[keys -> Coords \cup {NoneCoord}] : keys \in SUBSET CoordKeys}

\* a table of two rows, the first of two cells, one of them without text
TableGrid ==
    [bbox |-> <<1, 1, 2, 2>>,
     rows |-> <<[bbox |-> <<1, 1, 2, 1>>,
                 cells |-> <<<<1, 1, 1, 1>>, <<2, 1, 2, 1>>>>],
                [bbox |-> <<1, 2, 2, 2>>, cells |-> <<<<1, 2, 2, 2>>>>]>>,
     extract |-> <<<<"a", Null>>, <<"b">>>>,
     extract_raises |-> FALSE]

\* a table without rows
TableNoRows ==
    [bbox |-> <<0, 0, 1, 1>>, rows |-> <<>>, extract |-> <<>>,
     extract_raises |-> FALSE]

\* a table of no width whose extract raises
TableBroken ==
    [bbox |-> <<2, 0, 2, 2>>,
     rows |-> <<[bbox |-> <<2, 0, 2, 2>>, cells |-> <<<<2, 0, 2, 2>>>>]>>,
     extract |-> <<>>,
     extract_raises |-> TRUE]

\* a table of one row of one cell (extract gives one text per cell of
\* every row)
TableStrip ==
    [bbox |-> <<0, 2, 1, 2>>,
     rows |-> <<[bbox |-> <<0, 2, 1, 2>>, cells |-> <<<<0, 2, 1, 2>>>>]>>,
     extract |-> <<<<"c">>>>,
     extract_raises |-> FALSE]

PageTables == {TableGrid, TableNoRows, TableBroken, TableStrip}
TableLists == SeqsUpTo(PageTables, MaxTables)

\* text lines of a page: centers (0, 0), (1.5, 1.5), (2, 0.5), (0.5, 1.5),
\* and a line without coordinates
LineA == [text |-> "A", x0 |-> 0, top |-> 0, x1 |-> 0, bottom |-> 0]
LineB == [text |-> "B", x0 |-> 1, top |-> 1, x1 |-> 2, bottom |-> 2]
LineC == [text |-> "C", x0 |-> 2, top |-> 0, x1 |-> 2, bottom |-> 1]
LineD == [text |-> "D", x0 |-> 0, top |-> 1, x1 |-> 1, bottom |-> 2]
LineNoBox == [text |-> "E"]

PageLines == {LineA, LineB, LineC, LineD, LineNoBox}
LineLists == SeqsUpTo(PageLines, MaxLines)

Pages == [readable : BOOLEAN, text_lines : LineLists, tables : TableLists]

\* the pages of the documents: text only, text and a table, a page whose
\* extraction raises, a page whose table extraction raises
PageText ==
    [readable |-> TRUE, text_lines |-> <<LineA, LineD>>, tables |-> <<>>]
PageTable ==
    [readable |-> TRUE, text_lines |-> <<LineB, LineD>>,
     tables |-> <<TableGrid>>]
PageUnreadable ==
    [readable |-> FALSE, text_lines |-> <<LineA>>, tables |-> <<>>]
PageBrokenTable ==
    [readable |-> TRUE, text_lines |-> <<LineD>>, tables |-> <<TableBroken>>]

PdfPages == {PageText, PageTable, PageUnreadable, PageBrokenTable}

PdfSources ==
    [kind : {"path", "bytes"}, name : {"source.pdf"},
     pages : SeqsUpTo(PdfPages, MaxPages)]

Filenames == {Null, "", "given.pdf"}

\* ------------------------------------- helpers of answer_question_stream
\* "".join of the texts of a context
RECURSIVE JoinText(_)
JoinText(texts) ==
    IF texts = <<>> THEN "" ELSE Head(texts) \o JoinText(Tail(texts))

\* QA_SYSTEM_PROMPT.format(document_contents=..., language=...): the template
\* has one placeholder, document_contents
QaSystemPrompt(document_contents, language) ==
    "QA_SYSTEM_PROMPT: " \o document_contents

SystemMessage(content) == [type |-> "system", content |-> content]
HumanMessage(content) == [type |-> "human", content |-> content]
AIMessage(content) == [type |-> "ai", content |-> content]

\* a test that finds a system message at any place of the history
HasSystemMessageAnywhere(history) ==
    \E k \in DOMAIN history : history[k].role = "system"

\* conversation_history and len(conversation_history) > 0 and
\* conversation_history[0].get("role") == "system"
HasSystemMessage(history) ==
    /\ history # <<>>
    /\ Len(history) > 0
    /\ history[1].role = "system"

\* for msg in history: user gives a HumanMessage, assistant an AIMessage
RECURSIVE HistoryMessages(_)
HistoryMessages(history) ==
    IF history = <<>> THEN <<>>
    ELSE LET msg == Head(history)
             own == IF msg.role = "user" THEN <<HumanMessage(msg.content)>>
                    ELSE IF msg.role = "assistant"
                         THEN <<AIMessage(msg.content)>>
                    ELSE <<>>
         IN  own \o HistoryMessages(Tail(history))

\* the new system message, None when the history brings its own
SystemMessageToReturn(docs, history, language) ==
    IF HasSystemMessage(history) THEN None
    ELSE Some(QaSystemPrompt(JoinText(BuildPdfContext(docs)), language))

\* the message list sent to the model
BuildMessages(question, docs, history, language) ==
    (IF HasSystemMessage(history)
     THEN <<SystemMessage(history[1].content)>>
              \o HistoryMessages(Tail(history))
     ELSE <<SystemMessage(QaSystemPrompt(JoinText(BuildPdfContext(docs)),
                                         language))>>
              \o HistoryMessages(history))
        \o <<HumanMessage(question)>>

\* chunk.content if hasattr(chunk, "content") else str(chunk)
ChunkContent(chunk) ==
    IF "content" \in DOMAIN chunk THEN chunk.content ELSE chunk.str

\* a tuple that carries the system message whatever the flag says
YieldedItemAlways(content, first, system_message) ==
    <<content, system_message>>

\* yield content, system_message_to_return / yield content, None
YieldedItem(content, first, system_message) ==
    <<content, IF first THEN system_message ELSE None>>

\* the tuple is handed over before the ones handed over earlier
YieldFirst(out, item) == <<item>> \o out

\* the caller receives the tuples in the order of the yields
Yield(out, item) == Append(out, item)

\* ------------------------------------------- helpers of event_generator
\* if system_message:
Truthy(system_message) == system_message # None /\ system_message[1] # ""

\* the events of one turn of the async for
ChunkEvents(chunk, system_message) ==
    (IF Truthy(system_message)
     THEN <<[type |-> "system_message", content |-> system_message[1]]>>
     ELSE <<>>)
        \o <<[type |-> "chunk", content |-> chunk]>>

DoneEvents == <<[type |-> "done"]>>

\* an except branch that sends the completion event as well
ErrorThenDoneEvents(e) ==
    <<[type |-> "error", content |-> e], [type |-> "done"]>>

\* the except branch
ErrorEvents(e) == <<[type |-> "error", content |-> e]>>

\* ------------------------------------- inputs of answer_question_stream
\* chunks of the model: a text, an empty text, an object without content
ChunkText == [content |-> "a"]
ChunkEmpty == [content |-> ""]
ChunkRaw == [str |-> "r"]
ModelChunks == {ChunkText, ChunkEmpty, ChunkRaw}
ChunkLists == SeqsUpTo(ModelChunks, MaxChunks)

\* the messages of a history
HistSystem == [role |-> "system", content |-> "QA_SYSTEM_PROMPT: old"]
HistUser == [role |-> "user", content |-> "q0"]
HistAssistant == [role |-> "assistant", content |-> "a0"]
HistoryLists == SeqsUpTo({HistSystem, HistUser, HistAssistant}, MaxHistory)

Question == "q1"
QaPdfData == <<DocA, DocB>>
Language == "en"
ModelError == "model failed"

\* ------------------------------------------- helpers of dependencies.py
\* a flag that is set only when the extractor was built
InitializedWhenBuilt(built) == built

\* _llm_extractor_initialized = True, before anything is tried
InitializedOnFirstCall(built) == TRUE

\* one call in the log of calls
Call(op, attempted, result) ==
    [op |-> op, attempted |-> attempted, result |-> result]

\* the HTTPException of status 503
Http503 == None

\* ------------------------------------------------------------------- Init
ExtractOff ==
    /\ key_names = <<>>
    /\ batch_size = 1
    /\ max_concurrent = 1
    /\ pc = "off"
    /\ batches = <<>>
    /\ semaphore = 0
    /\ task = <<>>
    /\ call = <<>>
    /\ batch_results_list = <<>>
    /\ finished = <<>>
    /\ merged_results = EmptyDict
    /\ pdf_data = <<>>
    /\ requests = <<>>
    /\ model_calls = <<>>

BatchOff ==
    /\ batch_pc = "off"
    /\ batch_key_names = <<>>
    /\ multi_result = <<>>
    /\ results_by_key = EmptyDict

GeomOff ==
    /\ geom_pc = "off"
    /\ line_arg = EmptyDict
    /\ tables_arg = <<>>

PageOff ==
    /\ page_pc = "off"
    /\ page_arg = [readable |-> TRUE, text_lines |-> <<>>, tables |-> <<>>]
    /\ page_number_arg = 1
    /\ page_data = NoPageData

PdfOff ==
    /\ pdf_pc = "off"
    /\ pdf_source = [kind |-> "bytes", name |-> "", pages |-> <<>>]
    /\ filename_arg = Null
    /\ display_name = ""
    /\ total_pages = 0
    /\ page_i = 1
    /\ pages_data = <<>>
    /\ aggregated_formatted_parts = <<>>
    /\ aggregated_line_id_map = EmptyDict
    /\ logged_errors = <<>>
    /\ document = NoDocument

\* no call of process_pdfs is made
PdfSideOff == GeomOff /\ PageOff /\ PdfOff

StreamOff ==
    /\ conversation_history = <<>>
    /\ model_chunks = <<>>
    /\ model_raises = FALSE
    /\ qa_pc = "off"
    /\ chunk_i = 0
    /\ first_chunk = TRUE
    /\ system_message_to_return = None
    /\ messages = <<>>
    /\ yielded = <<>>
    /\ sse_pc = "off"
    /\ events = <<>>

DepsOff ==
    /\ api_key_set = FALSE
    /\ llm_extractor = None
    /\ llm_extractor_initialized = FALSE
    /\ constructed = 0
    /\ call_log = <<>>

\* no question is streamed and no extractor is asked for
ServiceOff == StreamOff /\ DepsOff

\* the requested lists: key names are interchangeable, so the first requested
\* name is taken to be "k1"
KeyLists == {names \in SeqsUpTo(Keys, MaxKeys) : names = <<>> \/ names[1] = "k1"}

\* extract_keys is entered; nothing is planned yet
ExtractEntered ==
    /\ pc = "init"
    /\ batches = <<>>
    /\ semaphore = 0
    /\ task = <<>>
    /\ call = <<>>
    /\ batch_results_list = <<>>
    /\ finished = <<>>
    /\ merged_results = EmptyDict
    /\ requests = <<>>
    /\ model_calls = <<>>

Init ==
    /\ key_names \in KeyLists
    /\ batch_size \in -1..MaxBatchSize
    /\ max_concurrent \in 1..MaxConcurrent
    /\ pdf_data = <<DocA>>
    /\ ExtractEntered
    /\ BatchOff
    /\ PdfSideOff
    /\ ServiceOff

\* the call with the documents as an input, the batches run one at a time
InitDocs ==
    /\ key_names \in KeyLists
    /\ batch_size \in -1..MaxBatchSize
    /\ max_concurrent = 1
    /\ pdf_data \in DocLists
    /\ ExtractEntered
    /\ BatchOff
    /\ PdfSideOff
    /\ ServiceOff

\* ------------------------------------------------- actions of extract_keys
\* if not key_names: return {}
ReturnEmpty ==
    /\ pc = "init"
    /\ key_names = <<>>
    /\ pc' = "returned"
    /\ merged_results' = EmptyDict
    /\ UNCHANGED <<key_names, batch_size, max_concurrent, batches, semaphore,
                   task, call, batch_results_list, finished, pdf_data,
                   requests, model_calls, nonExtractVars>>

\* range(0, len(key_names), 0) raises ValueError
RaiseZeroStep ==
    /\ pc = "init"
    /\ key_names # <<>>
    /\ batch_size = 0
    /\ pc' = "raised"
    /\ UNCHANGED <<key_names, batch_size, max_concurrent, batches, semaphore,
                   task, call, batch_results_list, finished, merged_results,
                   pdf_data, requests, model_calls, nonExtractVars>>

\* split the keys, create the semaphore and one run_batch task per batch
PlanBatches ==
    /\ pc = "init"
    /\ key_names # <<>>
    /\ batch_size # 0
    /\ batches' = SplitBatches(key_names, batch_size)
    /\ semaphore' = NewSemaphore(max_concurrent)
    /\ task' = [i \in 1..Len(batches') |-> "waiting"]
    /\ call' = [i \in 1..Len(batches') |-> "none"]
    /\ batch_results_list' = [i \in 1..Len(batches') |-> EmptyDict]
    /\ requests' = [i \in 1..Len(batches') |-> NoPrompt]
    /\ model_calls' = [i \in 1..Len(batches') |-> 0]
    /\ pc' = "running"
    /\ UNCHANGED <<key_names, batch_size, max_concurrent, finished,
                   merged_results, pdf_data, nonExtractVars>>

\* async with semaphore: the tasks start in batch order and the semaphore
\* wakes its waiters first in, first out; the task then builds its prompt and
\* issues its model call
Acquire(i) ==
    /\ pc = "running"
    /\ task[i] = "waiting"
    /\ \A j \in 1..(i - 1) : task[j] # "waiting"
    /\ semaphore > 0
    /\ semaphore' = semaphore - 1
    /\ task' = [task EXCEPT ![i] = "calling"]
    /\ requests' = [requests EXCEPT ![i] = BatchPrompt(batches[i], pdf_data)]
    /\ model_calls' = [model_calls EXCEPT ![i] = @ + 1]
    /\ UNCHANGED <<key_names, batch_size, max_concurrent, pc, batches, call,
                   batch_results_list, finished, merged_results, pdf_data,
                   nonExtractVars>>

\* the model call of batch i returns a structured response; run_batch
\* returns the outcome and leaves the semaphore
BatchSucceeds(i) ==
    /\ pc = "running"
    /\ task[i] = "calling"
    /\ \E outcome \in BatchOutcomes(batches[i]) :
          batch_results_list' = [batch_results_list EXCEPT ![i] = outcome]
    /\ call' = [call EXCEPT ![i] = "ok"]
    /\ task' = [task EXCEPT ![i] = "done"]
    /\ semaphore' = Release(semaphore)
    /\ finished' = Append(finished, i)
    /\ UNCHANGED <<key_names, batch_size, max_concurrent, pc, batches,
                   merged_results, pdf_data, requests, model_calls,
                   nonExtractVars>>

\* the model call of batch i raises; gather (return_exceptions=False) would
\* pass an exception of run_batch on to the caller of extract_keys
BatchFails(i) ==
    /\ pc = "running"
    /\ task[i] = "calling"
    /\ LET outcome == ExtractKeysBatchExcept(batches[i])
       IN  /\ batch_results_list' =
                 [batch_results_list EXCEPT ![i] = outcome.value]
           /\ pc' = IF outcome.raised THEN "raised" ELSE pc
    /\ call' = [call EXCEPT ![i] = "failed"]
    /\ task' = [task EXCEPT ![i] = "done"]
    /\ semaphore' = Release(semaphore)
    /\ finished' = Append(finished, i)
    /\ model_calls' =
          [model_calls EXCEPT ![i] = CallsAfterFailure(@, batches[i])]
    /\ UNCHANGED <<key_names, batch_size, max_concurrent, batches,
                   merged_results, pdf_data, requests, nonExtractVars>>

\* gather has all results: merge them, log the average time per request
\* (elapsed_time / len(batches): ZeroDivisionError without batches), return
MergeAndReturn ==
    /\ pc = "running"
    /\ \A i \in DOMAIN task : task[i] = "done"
    /\ merged_results' = MergeResults(Gather(batch_results_list, finished))
    /\ pc' = IF CompletionLogRaises(Len(batches)) THEN "raised" ELSE "returned"
    /\ UNCHANGED <<key_names, batch_size, max_concurrent, batches, semaphore,
                   task, call, batch_results_list, finished, pdf_data,
                   requests, model_calls, nonExtractVars>>

Next ==
    \/ ReturnEmpty
    \/ RaiseZeroStep
    \/ PlanBatches
    \/ \E i \in DOMAIN task : Acquire(i)
    \/ \E i \in DOMAIN task : BatchSucceeds(i)
    \/ \E i \in DOMAIN task : BatchFails(i)
    \/ MergeAndReturn

Spec == Init /\ [][Next]_vars

SpecDocs == InitDocs /\ [][Next]_vars

\* the event loop keeps running while a task can run, and every model call
\* returns or raises: the call does not stop while a step is possible
Fairness == WF_vars(Next)

\* the progress of a call is followed on requests of at most MaxLiveKeys keys
InitLive ==
    /\ key_names \in {names \in KeyLists : Len(names) <= MaxLiveKeys}
    /\ batch_size \in -1..MaxBatchSize
    /\ max_concurrent \in 1..MaxConcurrent
    /\ pdf_data = <<DocA>>
    /\ ExtractEntered
    /\ BatchOff
    /\ PdfSideOff
    /\ ServiceOff

SpecLive == InitLive /\ [][Next]_vars /\ Fairness

\* ------------------------------------------ actions of _extract_keys_batch
\* a batch is a non-empty slice of at most batch_size key names
InitBatch ==
    /\ ExtractOff
    /\ batch_pc = "calling"
    /\ batch_key_names \in SeqsUpTo(Keys, MaxBatchSize) \ {<<>>}
    /\ multi_result = <<>>
    /\ results_by_key = EmptyDict
    /\ PdfSideOff
    /\ ServiceOff

\* ainvoke returns the structured response
BatchCallReturns ==
    /\ batch_pc = "calling"
    /\ \E items \in Responses :
        /\ multi_result' = items
        /\ results_by_key' = ExtractKeysBatchTry(batch_key_names, items)
    /\ batch_pc' = "ok"
    /\ UNCHANGED <<batch_key_names, extractVars, pdfSideVars, streamVars,
                   depsVars>>

\* ainvoke raises
BatchCallRaises ==
    /\ batch_pc = "calling"
    /\ LET outcome == ExtractKeysBatchExcept(batch_key_names)
       IN  /\ results_by_key' = outcome.value
           /\ batch_pc' = IF outcome.raised THEN "raised" ELSE "failed"
    /\ UNCHANGED <<batch_key_names, multi_result, extractVars, pdfSideVars,
                   streamVars, depsVars>>

NextBatch ==
    \/ BatchCallReturns
    \/ BatchCallRaises

SpecBatch == InitBatch /\ [][NextBatch]_vars

\* ------------------------------------------ action of is_line_in_any_table
InitGeom ==
    /\ ExtractOff
    /\ BatchOff
    /\ ServiceOff
    /\ PageOff
    /\ PdfOff
    /\ geom_pc = "called"
    /\ line_arg \in GeomLines
    /\ tables_arg \in TableLists

\* the call returns
LineClassified ==
    /\ geom_pc = "called"
    /\ geom_pc' = IF IsLineInAnyTable(line_arg, tables_arg)
                  THEN "true" ELSE "false"
    /\ UNCHANGED <<line_arg, tables_arg, llmVars, pageVars, pdfVars>>

NextGeom == LineClassified

SpecGeom == InitGeom /\ [][NextGeom]_vars

\* ----------------------------------------- actions of process_single_page
InitPage ==
    /\ ExtractOff
    /\ BatchOff
    /\ ServiceOff
    /\ GeomOff
    /\ PdfOff
    /\ page_pc = "called"
    /\ page_arg \in Pages
    /\ page_number_arg \in 1..MaxPages
    /\ page_data = NoPageData

\* the page is formatted and returned
PageReturns ==
    /\ page_pc = "called"
    /\ ~PageRaises(page_arg)
    /\ page_data' = ProcessSinglePage(page_arg, page_number_arg)
    /\ page_pc' = "returned"
    /\ UNCHANGED <<page_arg, page_number_arg, llmVars, geomVars, pdfVars>>

\* an extraction call raises, and so does process_single_page
PageRaised ==
    /\ page_pc = "called"
    /\ PageRaises(page_arg)
    /\ page_pc' = "raised"
    /\ UNCHANGED <<page_arg, page_number_arg, page_data, llmVars, geomVars,
                   pdfVars>>

NextPage ==
    \/ PageReturns
    \/ PageRaised

SpecPage == InitPage /\ [][NextPage]_vars

\* ------------------------------------------ actions of process_single_pdf
InitPdf ==
    /\ ExtractOff
    /\ BatchOff
    /\ ServiceOff
    /\ GeomOff
    /\ PageOff
    /\ pdf_pc = "called"
    /\ pdf_source \in PdfSources
    /\ filename_arg \in Filenames
    /\ display_name = ""
    /\ total_pages = 0
    /\ page_i = 1
    /\ pages_data = <<>>
    /\ aggregated_formatted_parts = <<>>
    /\ aggregated_line_id_map = EmptyDict
    /\ logged_errors = <<>>
    /\ document = NoDocument

\* the display name is chosen, the source opened and the header written
OpenPdf ==
    /\ pdf_pc = "called"
    /\ display_name' = DisplayName(pdf_source, filename_arg)
    /\ total_pages' = Len(pdf_source.pages)
    /\ aggregated_formatted_parts' =
          DocumentHeader(DisplayName(pdf_source, filename_arg),
                         Len(pdf_source.pages))
    /\ pdf_pc' = "pages"
    /\ UNCHANGED <<pdf_source, filename_arg, page_i, pages_data,
                   aggregated_line_id_map, logged_errors, document, llmVars,
                   geomVars, pageVars>>

\* one turn of the page loop: the page is extracted and added
PageProcessed ==
    /\ pdf_pc = "pages"
    /\ page_i <= Len(pdf_source.pages)
    /\ ~PageRaises(pdf_source.pages[page_i])
    /\ LET page_result == ProcessSinglePage(pdf_source.pages[page_i], page_i)
       IN  /\ pages_data' = Append(pages_data, page_result)
           /\ aggregated_formatted_parts' =
                 AppendPageText(aggregated_formatted_parts,
                                page_result.formatted_text)
           /\ aggregated_line_id_map' =
                 AggregatedMapUpdate(aggregated_line_id_map,
                                     page_result.line_id_map)
    /\ page_i' = page_i + 1
    /\ UNCHANGED <<pdf_pc, pdf_source, filename_arg, display_name, total_pages,
                   logged_errors, document, llmVars, geomVars, pageVars>>

\* one turn of the page loop: the extraction raises, the error is logged
PageFailed ==
    /\ pdf_pc = "pages"
    /\ page_i <= Len(pdf_source.pages)
    /\ PageRaises(pdf_source.pages[page_i])
    /\ logged_errors' = Append(logged_errors, page_i)
    /\ page_i' = ContinueAfterFailure(page_i, Len(pdf_source.pages))
    /\ UNCHANGED <<pdf_pc, pdf_source, filename_arg, display_name, total_pages,
                   pages_data, aggregated_formatted_parts,
                   aggregated_line_id_map, document, llmVars, geomVars,
                   pageVars>>

\* the loop is over: the document is returned
ReturnDocument ==
    /\ pdf_pc = "pages"
    /\ page_i > Len(pdf_source.pages)
    /\ document' = [filename |-> display_name,
                    total_pages |-> total_pages,
                    pages |-> pages_data,
                    formatted_text |-> aggregated_formatted_parts,
                    line_id_map |-> aggregated_line_id_map]
    /\ pdf_pc' = "returned"
    /\ UNCHANGED <<pdf_source, filename_arg, display_name, total_pages, page_i,
                   pages_data, aggregated_formatted_parts,
                   aggregated_line_id_map, logged_errors, llmVars, geomVars,
                   pageVars>>

NextPdf ==
    \/ OpenPdf
    \/ PageProcessed
    \/ PageFailed
    \/ ReturnDocument

SpecPdf == InitPdf /\ [][NextPdf]_vars

\* -------------------------------------- actions of ask_question_stream
\* no history (None) and the empty history are both the empty sequence: every
\* test of the two functions treats them alike
InitStream ==
    /\ ExtractOff
    /\ BatchOff
    /\ PdfSideOff
    /\ DepsOff
    /\ conversation_history \in HistoryLists
    /\ model_chunks \in ChunkLists
    /\ model_raises \in BOOLEAN
    /\ qa_pc = "called"
    /\ chunk_i = 0
    /\ first_chunk = TRUE
    /\ system_message_to_return = None
    /\ messages = <<>>
    /\ yielded = <<>>
    /\ sse_pc = "waiting"
    /\ events = <<>>

\* answer_question_stream up to the call of astream
MessagesBuilt ==
    /\ qa_pc = "called"
    /\ sse_pc = "waiting"
    /\ messages' = BuildMessages(Question, QaPdfData, conversation_history,
                                 Language)
    /\ system_message_to_return' =
          SystemMessageToReturn(QaPdfData, conversation_history, Language)
    /\ first_chunk' = TRUE
    /\ qa_pc' = "streaming"
    /\ UNCHANGED <<conversation_history, model_chunks, model_raises, chunk_i,
                   yielded, sse_pc, events, extractVars, batchVars,
                   pdfSideVars, depsVars>>

\* one turn of the loop over astream: a chunk with content is yielded
ChunkYielded ==
    /\ qa_pc = "streaming"
    /\ sse_pc = "waiting"
    /\ chunk_i < Len(model_chunks)
    /\ LET content == ChunkContent(model_chunks[chunk_i + 1])
       IN  /\ content # ""
           /\ yielded' = Yield(yielded,
                               YieldedItem(content, first_chunk,
                                           system_message_to_return))
    /\ first_chunk' = FALSE
    /\ chunk_i' = chunk_i + 1
    /\ sse_pc' = "handling"
    /\ UNCHANGED <<conversation_history, model_chunks, model_raises, qa_pc,
                   system_message_to_return, messages, events, extractVars,
                   batchVars, pdfSideVars, depsVars>>

\* one turn of the loop over astream: a chunk without content is passed over
ChunkSkipped ==
    /\ qa_pc = "streaming"
    /\ sse_pc = "waiting"
    /\ chunk_i < Len(model_chunks)
    /\ ChunkContent(model_chunks[chunk_i + 1]) = ""
    /\ chunk_i' = chunk_i + 1
    /\ UNCHANGED <<conversation_history, model_chunks, model_raises, qa_pc,
                   first_chunk, system_message_to_return, messages, yielded,
                   sse_pc, events, extractVars, batchVars, pdfSideVars,
                   depsVars>>

\* the body of the async for of event_generator, for the tuple just yielded
EventsSent ==
    /\ sse_pc = "handling"
    /\ LET item == yielded[Len(yielded)]
       IN  events' = events \o ChunkEvents(item[1], item[2])
    /\ sse_pc' = "waiting"
    /\ UNCHANGED <<conversation_history, model_chunks, model_raises, qa_pc,
                   chunk_i, first_chunk, system_message_to_return, messages,
                   yielded, extractVars, batchVars, pdfSideVars, depsVars>>

\* the stream of the model is over: the generator ends
StreamCompleted ==
    /\ qa_pc = "streaming"
    /\ sse_pc = "waiting"
    /\ chunk_i = Len(model_chunks)
    /\ ~model_raises
    /\ qa_pc' = "completed"
    /\ UNCHANGED <<conversation_history, model_chunks, model_raises, chunk_i,
                   first_chunk, system_message_to_return, messages, yielded,
                   sse_pc, events, extractVars, batchVars, pdfSideVars,
                   depsVars>>

\* astream raises: the error is logged and raised again
StreamRaised ==
    /\ qa_pc = "streaming"
    /\ sse_pc = "waiting"
    /\ chunk_i = Len(model_chunks)
    /\ model_raises
    /\ qa_pc' = "raised"
    /\ UNCHANGED <<conversation_history, model_chunks, model_raises, chunk_i,
                   first_chunk, system_message_to_return, messages, yielded,
                   sse_pc, events, extractVars, batchVars, pdfSideVars,
                   depsVars>>

\* the async for of event_generator ends: the completion event
DoneSent ==
    /\ qa_pc = "completed"
    /\ sse_pc = "waiting"
    /\ events' = events \o DoneEvents
    /\ sse_pc' = "done"
    /\ UNCHANGED <<conversation_history, model_chunks, model_raises, qa_pc,
                   chunk_i, first_chunk, system_message_to_return, messages,
                   yielded, extractVars, batchVars, pdfSideVars, depsVars>>

\* the except branch of event_generator
ErrorSent ==
    /\ qa_pc = "raised"
    /\ sse_pc = "waiting"
    /\ events' = events \o ErrorEvents(ModelError)
    /\ sse_pc' = "error"
    /\ UNCHANGED <<conversation_history, model_chunks, model_raises, qa_pc,
                   chunk_i, first_chunk, system_message_to_return, messages,
                   yielded, extractVars, batchVars, pdfSideVars, depsVars>>

NextStream ==
    \/ MessagesBuilt
    \/ ChunkYielded
    \/ ChunkSkipped
    \/ EventsSent
    \/ StreamCompleted
    \/ StreamRaised
    \/ DoneSent
    \/ ErrorSent

\* the event loop runs a generator that can go on
SpecStream == InitStream /\ [][NextStream]_vars /\ WF_vars(NextStream)

\* ------------------------------------------- actions of dependencies.py
InitDeps ==
    /\ ExtractOff
    /\ BatchOff
    /\ PdfSideOff
    /\ StreamOff
    /\ api_key_set \in BOOLEAN
    /\ llm_extractor = None
    /\ llm_extractor_initialized = FALSE
    /\ constructed = 0
    /\ call_log = <<>>

\* get_llm_extractor before the initialization: without a key nothing is
\* built; with one, LLMKeyExtractor is built or its construction raises
GetInitializes ==
    /\ Len(call_log) < MaxCalls
    /\ ~llm_extractor_initialized
    /\ \E built \in {b \in BOOLEAN : b => api_key_set} :
          /\ llm_extractor_initialized' = InitializedOnFirstCall(built)
          /\ constructed' = IF api_key_set THEN constructed + 1
                            ELSE constructed
          /\ llm_extractor' = IF built THEN Some(constructed + 1)
                              ELSE llm_extractor
          /\ call_log' = Append(call_log,
                Call("get", api_key_set,
                     IF built THEN Some(constructed + 1)
                     ELSE IF llm_extractor = None THEN Http503
                     ELSE llm_extractor))
    /\ UNCHANGED <<api_key_set, extractVars, batchVars, pdfSideVars,
                   streamVars>>

\* get_llm_extractor after the initialization
GetInitialized ==
    /\ Len(call_log) < MaxCalls
    /\ llm_extractor_initialized
    /\ call_log' = Append(call_log,
          Call("get", FALSE,
               IF llm_extractor = None THEN Http503 ELSE llm_extractor))
    /\ UNCHANGED <<api_key_set, llm_extractor, llm_extractor_initialized,
                   constructed, extractVars, batchVars, pdfSideVars,
                   streamVars>>

\* reset_llm_extractor
ResetLlmExtractor ==
    /\ Len(call_log) < MaxCalls
    /\ llm_extractor' = None
    /\ llm_extractor_initialized' = FALSE
    /\ call_log' = Append(call_log, Call("reset", FALSE, None))
    /\ UNCHANGED <<api_key_set, constructed, extractVars, batchVars,
                   pdfSideVars, streamVars>>

NextDeps ==
    \/ GetInitializes
    \/ GetInitialized
    \/ ResetLlmExtractor

SpecDeps == InitDeps /\ [][NextDeps]_vars

\* ----------------------------------------------------------------- claims
Calling == {i \in DOMAIN task : task[i] = "calling"}

BatchesOf(k) == {i \in DOMAIN batches : k \in Range(batches[i])}

OutcomesWith(k) ==
    {i \in DOMAIN batch_results_list : k \in DOMAIN batch_results_list[i]}

\* C1: every requested key name is a key of the map extract_keys returns, and
\* a key for which no batch obtained a result is present with value null.
InvC1_RequestedKeysPresent ==
    pc = "returned" =>
        \A k \in Range(key_names) :
            /\ k \in DOMAIN merged_results
            /\ (\A i \in OutcomesWith(k) : batch_results_list[i][k] = Null)
                   => merged_results[k] = Null

\* a call of two or more batches returned after one batch failed and another
\* succeeded without a result for one of its keys
WitC1_NullAfterFailure ==
    /\ pc = "returned"
    /\ Len(batches) >= 2
    /\ \E i, j \in DOMAIN call : call[i] = "failed" /\ call[j] = "ok"
    /\ \E k \in Range(key_names) : merged_results[k] = Null

\* C2: the key set of the returned map equals the set of requested key names,
\* whatever key names the response items carry.
CexC2_KeySetExact ==
    pc = "returned" => DOMAIN merged_results = Range(key_names)

\* C3: a batch whose model call failed maps every key name of the batch, and
\* nothing else, to null.
InvC3_FailedBatchAllNull ==
    \A i \in DOMAIN call :
        call[i] = "failed" =>
            /\ DOMAIN batch_results_list[i] = Range(batches[i])
            /\ \A k \in Range(batches[i]) : batch_results_list[i][k] = Null

\* a batch of two distinct keys failed while another batch succeeded
WitC3_TwoKeyBatchFailed ==
    \E i, j \in DOMAIN call :
        /\ call[i] = "failed"
        /\ call[j] = "ok"
        /\ Cardinality(Range(batches[i])) = 2

\* C4: every key of a batch whose call succeeded with a non-null result for
\* it has that result in the returned map.
CexC4_SucceededResultKept ==
    pc = "returned" =>
        \A i \in DOMAIN batches :
            \A k \in Range(batches[i]) :
                (call[i] = "ok" /\ batch_results_list[i][k] # Null)
                    => merged_results[k] = batch_results_list[i][k]

\* C5: at most max_concurrent batches await their model response.
InvC5_ConcurrencyCeiling == Cardinality(Calling) <= max_concurrent

\* the ceiling is reached while a batch waits for the semaphore
WitC5_CeilingReached ==
    /\ Cardinality(Calling) = max_concurrent
    /\ \E i \in DOMAIN task : task[i] = "waiting"

\* C6: with a batch size of at least 1, extract_keys never raises, whichever
\* batch calls fail; when it returns, every batch has run and has its outcome.
InvC6_NoRaiseOnBatchFailure ==
    /\ batch_size >= 1 => pc # "raised"
    /\ (pc = "returned" /\ key_names # <<>>) =>
          \A i \in DOMAIN batches :
              /\ task[i] = "done"
              /\ call[i] # "none"
              /\ Range(batches[i]) \subseteq DOMAIN batch_results_list[i]

\* extract_keys returned although the calls of all its batches failed
WitC6_AllBatchesFailed ==
    /\ pc = "returned"
    /\ Len(batches) >= 2
    /\ \A i \in DOMAIN call : call[i] = "failed"

RECURSIVE Concat(_)
Concat(list) == IF list = <<>> THEN <<>> ELSE Head(list) \o Concat(Tail(list))

\* C7: for N key names and batch size B >= 1 there are ceil(N/B) batches,
\* batch i holds key_names[i*B : (i+1)*B], none is empty, only the last may be
\* shorter than B, and their concatenation is the requested list.
InvC7_Chunking ==
    (pc \in {"running", "returned"} /\ batch_size >= 1) =>
        LET N == Len(key_names)
            B == batch_size
            c == Len(batches)
        IN  /\ c * B >= N
            /\ c > 0 => (c - 1) * B < N
            /\ \A i \in 1..c :
                  /\ Len(batches[i]) >= 1
                  /\ i < c => Len(batches[i]) = B
                  /\ Len(batches[i]) <= B
                  /\ \A j \in 1..Len(batches[i]) :
                        batches[i][j] = key_names[(i - 1) * B + j]
            /\ Concat(batches) = key_names

\* three keys planned with batch size two: a full batch and a shorter last one
WitC7_ShortLastBatch ==
    /\ pc = "running"
    /\ Len(key_names) = 3
    /\ batch_size = 2
    /\ Len(batches) = 2

\* C9: the returned map is a function of the per-batch outcomes alone: each
\* key has the value of the last batch, in batch order, whose outcome holds
\* it, in whatever order the batches completed.
InvC9_OrderIndependent ==
    pc = "returned" =>
        merged_results =
            [k \in UNION {DOMAIN batch_results_list[i] : i \in DOMAIN batch_results_list}
                |-> batch_results_list[MaxOf(OutcomesWith(k))][k]]

\* a later batch completed before an earlier one and their outcomes differ
\* on a key
WitC9_OutOfOrderCompletion ==
    /\ pc = "returned"
    /\ \E a, b \in DOMAIN finished :
        /\ a < b
        /\ finished[a] > finished[b]
        /\ \E k \in Keys :
            /\ k \in DOMAIN batch_results_list[finished[a]]
            /\ k \in DOMAIN batch_results_list[finished[b]]
            /\ batch_results_list[finished[a]][k] # batch_results_list[finished[b]][k]

\* C10: every requested key name is in exactly one batch and in exactly one
\* per-batch outcome map.
CexC10_NoCollision ==
    pc = "returned" =>
        \A k \in Range(key_names) :
            /\ Cardinality(BatchesOf(k)) = 1
            /\ Cardinality(OutcomesWith(k)) = 1

\* C8: after a successful batch call a requested key the response omits is
\* null in the outcome, and a requested key the response includes has a
\* result the response gives for it (the only one when it is included once).
InvC8_OmittedKeyNull ==
    batch_pc = "ok" =>
        \A k \in Range(batch_key_names) :
            LET given == {j \in DOMAIN multi_result : multi_result[j].key_name = k}
            IN  /\ k \in DOMAIN results_by_key
                /\ given = {} => results_by_key[k] = Null
                /\ given # {} =>
                      results_by_key[k] \in {multi_result[j].result : j \in given}

\* the response omits one requested key and gives a value for another
WitC8_OneOmittedOneGiven ==
    /\ batch_pc = "ok"
    /\ \E k, m \in Range(batch_key_names) :
        /\ \A j \in DOMAIN multi_result : multi_result[j].key_name # k
        /\ results_by_key[k] = Null
        /\ \E j \in DOMAIN multi_result : multi_result[j].key_name = m
        /\ results_by_key[m] # Null

RECURSIVE SumOf(_)
SumOf(counts) == IF counts = <<>> THEN 0 ELSE Head(counts) + SumOf(Tail(counts))

\* C11: every planned batch gets exactly one model call: none before its task
\* holds the semaphore, one from then on, also after its call failed; a
\* returned call has issued as many calls as it planned batches, and an empty
\* key list returns the empty map without a call.
InvC11_OneCallPerBatch ==
    /\ \A i \in DOMAIN model_calls :
          /\ task[i] = "waiting" => model_calls[i] = 0
          /\ task[i] # "waiting" => model_calls[i] = 1
    /\ pc = "returned" => SumOf(model_calls) = Len(batches)
    /\ (pc = "returned" /\ key_names = <<>>) =>
          (SumOf(model_calls) = 0 /\ merged_results = EmptyDict)

\* a call of two or more batches returned after one of its calls failed
WitC11_ReturnedAfterFailure ==
    /\ pc = "returned"
    /\ Len(batches) >= 2
    /\ \E i \in DOMAIN call : call[i] = "failed"

\* C12: with a non-empty key list and batch_size <= 0, extract_keys plans no
\* batch, issues no model call and never returns.
InvC12_NonPositiveBatchSizeRejected ==
    (key_names # <<>> /\ batch_size <= 0) =>
        /\ pc \in {"init", "running", "raised"}
        /\ Len(batches) = 0
        /\ SumOf(model_calls) = 0
        /\ merged_results = EmptyDict

\* a negative batch size ended in an error
WitC12_NegativeBatchSizeRaised ==
    /\ pc = "raised"
    /\ key_names # <<>>
    /\ batch_size < 0

\* C13: with a non-empty key list and no document, extract_keys issues no
\* model call and does not return a map.
CexC13_EmptyDocumentsRejected ==
    (key_names # <<>> /\ pdf_data = <<>>) =>
        /\ pc # "returned"
        /\ SumOf(model_calls) = 0

\* C14: a call with a non-empty key list and a batch size of at least 1
\* eventually returns, with every batch having held the semaphore and
\* produced its outcome.
PropC14_EveryBatchRuns ==
    (pc = "init" /\ key_names # <<>> /\ batch_size >= 1)
        ~> (/\ pc = "returned"
            /\ \A i \in DOMAIN batches : task[i] = "done" /\ call[i] # "none")

\* a call returned that had more batches than permits
WitC14_ReturnedAfterWaiting ==
    /\ pc = "returned"
    /\ Len(batches) > max_concurrent

\* the position of document j's text in the context
RECURSIVE OffsetOf(_, _)
OffsetOf(docs, j) ==
    IF j = 1 THEN 0
    ELSE OffsetOf(docs, j - 1) + Len(FormattedTextOf(docs[j - 1]))

Sent == {i \in DOMAIN requests : task[i] # "waiting"}

RequestsCarryAllDocuments ==
    \A i \in Sent :
        /\ requests[i].keys_section = batches[i]
        /\ Len(requests[i].full_context) = OffsetOf(pdf_data, Len(pdf_data) + 1)
        /\ \A j \in DOMAIN pdf_data :
              \A p \in DOMAIN FormattedTextOf(pdf_data[j]) :
                  requests[i].full_context[OffsetOf(pdf_data, j) + p]
                      = FormattedTextOf(pdf_data[j])[p]

\* C15: every batch request carries the texts of all documents, in document
\* order, and the key names of its own batch only; no step of extract_keys
\* changes the documents or the requested key list.
PropC15_RequestContext ==
    /\ []RequestsCarryAllDocuments
    /\ [][pdf_data' = pdf_data /\ key_names' = key_names]_vars

\* two batches were sent for two different documents
WitC15_TwoBatchesTwoDocuments ==
    /\ Cardinality(Sent) >= 2
    /\ Len(pdf_data) = 2
    /\ FormattedTextOf(pdf_data[1]) # FormattedTextOf(pdf_data[2])
    /\ FormattedTextOf(pdf_data[2]) # <<>>
    /\ batches[1] # batches[2]

\* the positions of the identifier markers of a formatted text
MarkerPositions(text) ==
    {k \in DOMAIN text : text[k].kind \in {"line_id", "cell_id"}}

\* the identifiers its markers name
Markers(text) == {text[k].val : k \in MarkerPositions(text)}

\* C16: the identifiers named by the [line_id: X] and [cell_id: X] markers of
\* a returned document's formatted_text are exactly the keys of its
\* line_id_map, also when pages failed.
InvC16_MarkersMatchMap ==
    pdf_pc = "returned" =>
        Markers(document.formatted_text) = DOMAIN document.line_id_map

\* a document with line and cell markers was returned after a page failed
WitC16_ReturnedAfterPageFailure ==
    /\ pdf_pc = "returned"
    /\ logged_errors # <<>>
    /\ \E k \in DOMAIN document.formatted_text :
          document.formatted_text[k].kind = "line_id"
    /\ \E k \in DOMAIN document.formatted_text :
          document.formatted_text[k].kind = "cell_id"

\* the number of entries of the id map of each page
PageMapSizes(pages) ==
    [k \in DOMAIN pages |-> Cardinality(DOMAIN pages[k].line_id_map)]

\* C17: in a returned document no identifier is given to two lines or cells,
\* and the merged line_id_map is the union of the page maps, with as many
\* entries as the page maps have together.
InvC17_IdentifiersUnique ==
    pdf_pc = "returned" =>
        /\ Cardinality(MarkerPositions(document.formatted_text))
              = Cardinality(DOMAIN document.line_id_map)
        /\ DOMAIN document.line_id_map =
              UNION {DOMAIN document.pages[k].line_id_map :
                        k \in DOMAIN document.pages}
        /\ \A k \in DOMAIN document.pages :
              \A id \in DOMAIN document.pages[k].line_id_map :
                 document.line_id_map[id] = document.pages[k].line_id_map[id]
        /\ Cardinality(DOMAIN document.line_id_map)
              = SumOf(PageMapSizes(document.pages))

\* a document of two pages, each with lines and cells, was returned
WitC17_TwoPagesWithLinesAndCells ==
    /\ pdf_pc = "returned"
    /\ Len(document.pages) = 2
    /\ \A k \in DOMAIN document.pages :
          /\ LineId(k, 0) \in DOMAIN document.pages[k].line_id_map
          /\ CellId(k, 0, 0, 0) \in DOMAIN document.pages[k].line_id_map

\* every coordinate of the line is present and defined
HasAllCoords(line) ==
    \A key \in CoordKeys : key \in DOMAIN line /\ line[key] # NoneCoord

\* the point ((x0 + x1) / 2, (top + bottom) / 2) is in the closed rectangle
CenterInClosedRect(line, bbox) ==
    /\ 2 * bbox[1] <= line.x0 + line.x1
    /\ line.x0 + line.x1 <= 2 * bbox[3]
    /\ 2 * bbox[2] <= line.top + line.bottom
    /\ line.top + line.bottom <= 2 * bbox[4]

\* the line is listed, under a line_id, in the free-text section
Listed(text, line) ==
    \E k \in DOMAIN text :
        /\ k < Len(text)
        /\ text[k].kind = "line_id"
        /\ text[k + 1] = Part("text", LineText(line))

CoordMissing(line) ==
    \E key \in CoordKeys : key \notin DOMAIN line \/ line[key] = NoneCoord

\* C19: a line with a coordinate absent or None is classified as outside
\* every table, whatever the tables.
CexC19_MissingCoordinateOutside ==
    (geom_pc \in {"true", "false"} /\ CoordMissing(line_arg)) =>
        geom_pc = "false"

\* C20: in a returned page, every cell_id of a table row maps to the bbox of
\* the whole row, whatever the number of cells of the row.
InvC20_CellsShareRowBBox ==
    page_pc = "returned" =>
        \A t \in DOMAIN page_arg.tables :
            LET table_obj == page_arg.tables[t]
            IN  \A r \in DOMAIN table_obj.rows :
                    r <= Len(table_obj.extract) =>
                        \A c \in DOMAIN table_obj.extract[r] :
                            LET cell_id ==
                                   CellId(page_number_arg, t - 1, r - 1, c - 1)
                            IN  /\ cell_id \in DOMAIN page_data.line_id_map
                                /\ page_data.line_id_map[cell_id]
                                      = table_obj.rows[r].bbox

\* a returned page has a row of two cells whose own boxes differ from the
\* box of the row
WitC20_TwoCellRow ==
    /\ page_pc = "returned"
    /\ \E t \in DOMAIN page_arg.tables :
          LET table_obj == page_arg.tables[t]
          IN  /\ Len(table_obj.rows) >= 1
              /\ Len(table_obj.extract) >= 1
              /\ Len(table_obj.extract[1]) = 2
              /\ table_obj.rows[1].cells[1] # table_obj.rows[1].bbox
              /\ table_obj.rows[1].cells[2] # table_obj.rows[1].bbox
              /\ page_data.line_id_map[CellId(page_number_arg, t - 1, 0, 0)]
                    = page_data.line_id_map[CellId(page_number_arg, t - 1, 0, 1)]

\* the lines of the page that are not inside a table, in extraction order
KeptLines(page) ==
    SelectSeq(page.text_lines,
              LAMBDA line : ~IsLineInAnyTable(line, page.tables))

\* the positions of the line_id markers of a formatted text, in order
RECURSIVE LineMarkersFrom(_, _)
LineMarkersFrom(text, k) ==
    IF k > Len(text) THEN <<>>
    ELSE IF text[k].kind = "line_id"
         THEN <<k>> \o LineMarkersFrom(text, k + 1)
         ELSE LineMarkersFrom(text, k + 1)

\* C21: on a returned page the line_ids are {page}_0 .. {page}_(k-1), in
\* extraction order, for the k lines that are not inside a table; a line
\* inside a table takes no index.
InvC21_SequentialLineIds ==
    page_pc = "returned" =>
        LET kept == KeptLines(page_arg)
            at == LineMarkersFrom(page_data.formatted_text, 1)
        IN  /\ Len(at) = Len(kept)
            /\ \A n \in DOMAIN kept :
                  LET id == ToString(page_number_arg) \o "_" \o ToString(n - 1)
                  IN  /\ page_data.formatted_text[at[n]] = Part("line_id", id)
                      /\ page_data.formatted_text[at[n] + 1]
                            = Part("text", LineText(kept[n]))
                      /\ id \in DOMAIN page_data.line_id_map
                      /\ page_data.line_id_map[id] = LineBBox(kept[n])

\* a returned page kept a line that comes after a line inside a table
WitC21_KeptAfterTableLine ==
    /\ page_pc = "returned"
    /\ Len(page_arg.text_lines) = 2
    /\ IsLineInAnyTable(page_arg.text_lines[1], page_arg.tables)
    /\ ~IsLineInAnyTable(page_arg.text_lines[2], page_arg.tables)
    /\ LineMarkersFrom(page_data.formatted_text, 1) # <<>>

\* the numbers, from i on, of the pages of a source whose extraction does
\* not raise
RECURSIVE ExtractablePages(_, _)
ExtractablePages(pages, i) ==
    IF i > Len(pages) THEN <<>>
    ELSE IF PageRaises(pages[i]) THEN ExtractablePages(pages, i + 1)
         ELSE <<i>> \o ExtractablePages(pages, i + 1)

\* C22: a document is returned also when pages raise: total_pages is the
\* number of pages of the source, and every page that does not raise is in
\* the document with its own page number, formatted text and identifiers.
InvC22_OtherPagesUnaffected ==
    pdf_pc = "returned" =>
        LET numbers == ExtractablePages(pdf_source.pages, 1)
        IN  /\ document.total_pages = Len(pdf_source.pages)
            /\ Len(document.pages) = Len(numbers)
            /\ \A k \in DOMAIN numbers :
                  /\ document.pages[k] =
                        ProcessSinglePage(pdf_source.pages[numbers[k]],
                                          numbers[k])
                  /\ \A id \in DOMAIN document.pages[k].line_id_map :
                        /\ id \in DOMAIN document.line_id_map
                        /\ document.line_id_map[id]
                              = document.pages[k].line_id_map[id]

\* a document was returned whose first page raised and whose second page
\* has identifiers
WitC22_SecondPageAfterFailure ==
    /\ pdf_pc = "returned"
    /\ logged_errors = <<1>>
    /\ Len(document.pages) = 1
    /\ document.pages[1].page_number = 2
    /\ "2_0" \in DOMAIN document.line_id_map

\* C23: a page whose extraction raises is among the pages of the returned
\* document, as a page without lines, tables or identifiers.
CexC23_FailedPageIsEmptyPage ==
    pdf_pc = "returned" =>
        \A i \in DOMAIN pdf_source.pages :
            PageRaises(pdf_source.pages[i]) =>
                \E k \in DOMAIN document.pages :
                    /\ document.pages[k].page_number = i
                    /\ document.pages[k].line_id_map = EmptyDict
                    /\ MarkerPositions(document.pages[k].formatted_text) = {}

\* the formatted texts of the pages, one after the other
PageTexts(pages) == Concat([k \in DOMAIN pages |-> pages[k].formatted_text])

\* C24: the formatted_text of a returned document is the banner, with the
\* display name and the total page count, followed by the formatted texts of
\* the extracted pages by increasing page number, each once, and nothing else.
InvC24_BannerThenPagesInOrder ==
    pdf_pc = "returned" =>
        /\ document.formatted_text =
              <<Part("document", document.filename),
                Part("total_pages", ToString(Len(pdf_source.pages)))>>
                  \o PageTexts(document.pages)
        /\ document.filename = DisplayName(pdf_source, filename_arg)
        /\ \A k \in DOMAIN document.pages :
              /\ document.pages[k].formatted_text[1]
                    = Part("page_banner",
                           ToString(document.pages[k].page_number))
              /\ k > 1 => document.pages[k - 1].page_number
                             < document.pages[k].page_number

\* a document of two extracted pages was returned
WitC24_TwoPagesReturned ==
    /\ pdf_pc = "returned"
    /\ Len(document.pages) = 2
    /\ document.pages[1].formatted_text # document.pages[2].formatted_text
    /\ Len(document.formatted_text)
          = 2 + Len(document.pages[1].formatted_text)
              + Len(document.pages[2].formatted_text)

\* the positions of the markers of one identifier in a formatted text
MarkersOf(text, kind, id) == {k \in DOMAIN text : text[k] = Part(kind, id)}

\* the cells of the tables of a page: table, row and column position
CellsOf(page) ==
    UNION {UNION {{<<t, r, c>> : c \in DOMAIN page.tables[t].rows[r].cells} :
                     r \in DOMAIN page.tables[t].rows} :
              t \in DOMAIN page.tables}

\* C26: on a returned page every cell of every row of every table has one
\* cell_id {page}_t{t}_r{r}_c{c} with its 0-based table, row and column
\* position, one marker in formatted_text, before the text of the cell, and
\* one entry in the id map; the cells of a row follow from left to right and
\* there is no other cell_id.
InvC26_EveryCellIdentified ==
    page_pc = "returned" =>
        LET text == page_data.formatted_text
            Id(cell) == ToString(page_number_arg)
                            \o "_t" \o ToString(cell[1] - 1)
                            \o "_r" \o ToString(cell[2] - 1)
                            \o "_c" \o ToString(cell[3] - 1)
            At(cell) == CHOOSE k \in MarkersOf(text, "cell_id", Id(cell)) : TRUE
            Said(cell) == page_arg.tables[cell[1]].extract[cell[2]][cell[3]]
        IN  /\ \A cell \in CellsOf(page_arg) :
                  /\ Cardinality(MarkersOf(text, "cell_id", Id(cell))) = 1
                  /\ text[At(cell) + 1]
                        = Part("text", IF Said(cell) = Null THEN ""
                                       ELSE Said(cell))
                  /\ Id(cell) \in DOMAIN page_data.line_id_map
            /\ \A cell, other \in CellsOf(page_arg) :
                  (cell[1] = other[1] /\ cell[2] = other[2]
                      /\ cell[3] < other[3]) => At(cell) < At(other)
            /\ Cardinality({k \in DOMAIN text : text[k].kind = "cell_id"})
                  = Cardinality(CellsOf(page_arg))

\* a returned page has cells in the second table and in the second row and
\* the second column of a table
WitC26_SecondTableRowColumn ==
    /\ page_pc = "returned"
    /\ \E cell \in CellsOf(page_arg) : cell[1] = 2
    /\ \E cell \in CellsOf(page_arg) : cell[2] = 2
    /\ \E cell \in CellsOf(page_arg) : cell[3] = 2

\* C29: once the semaphore exists, its free permits and the batches holding
\* one add up to max_concurrent, and when extract_keys has returned every
\* permit is free again, also after failed model calls.
InvC29_PermitsConserved ==
    /\ (pc \in {"running", "returned"} /\ key_names # <<>>) =>
          semaphore + Cardinality(Calling) = max_concurrent
    /\ (pc = "returned" /\ key_names # <<>>) =>
          /\ Calling = {}
          /\ semaphore = max_concurrent

\* extract_keys returned after two model calls failed
WitC29_ReturnedAfterTwoFailures ==
    /\ pc = "returned"
    /\ Cardinality({i \in DOMAIN call : call[i] = "failed"}) >= 2
    /\ semaphore = max_concurrent

\* the non-empty contents of the first n chunks of the model, in their order
RECURSIVE NonEmptyContents(_, _)
NonEmptyContents(chunks, n) ==
    IF n = 0 THEN <<>>
    ELSE LET content == IF "content" \in DOMAIN chunks[n]
                        THEN chunks[n].content ELSE chunks[n].str
             before == NonEmptyContents(chunks, n - 1)
         IN  IF content = "" THEN before ELSE Append(before, content)

\* the first components of the tuples yielded so far
YieldedContents == [k \in DOMAIN yielded |-> yielded[k][1]]

YieldedInOrder == YieldedContents = NonEmptyContents(model_chunks, chunk_i)

StreamOver ==
    /\ qa_pc \in {"completed", "raised"}
    /\ chunk_i = Len(model_chunks)

\* C25: at every moment the texts answer_question_stream has yielded are the
\* non-empty contents of the model chunks consumed so far, each once and in
\* the order of the model; and the generator ends once the chunks of the
\* model are used up.
InvC25_ChunksInModelOrder == []YieldedInOrder /\ <>StreamOver

\* the model gave a text, an empty chunk and another text; both texts were
\* yielded and the stream completed
WitC25_TwoTextsAroundEmptyChunk ==
    /\ qa_pc = "completed"
    /\ Len(model_chunks) = 3
    /\ ChunkEmpty = model_chunks[2]
    /\ Len(yielded) = 2
    /\ yielded[1][1] # yielded[2][1]

\* C27: of the tuples answer_question_stream yields, only the first can carry
\* a system message, and it carries the new system message exactly when the
\* history does not start with a system message; every other tuple carries
\* None.
InvC27_SystemMessageOnFirstOnly ==
    LET starts == /\ Len(conversation_history) > 0
                  /\ conversation_history[1].role = "system"
    IN  \A k \in DOMAIN yielded :
           IF k = 1 /\ ~starts
           THEN /\ yielded[k][2] # None
                /\ messages[1] = [type |-> "system",
                                  content |-> yielded[k][2][1]]
           ELSE yielded[k][2] = None

\* a history of a user message and a system message after it: the first of
\* two yielded tuples carries the system message, the second None
WitC27_SecondTupleCarriesNone ==
    /\ Len(conversation_history) = 2
    /\ conversation_history[2].role = "system"
    /\ Len(yielded) = 2
    /\ yielded[1][2] # None
    /\ yielded[2][2] = None

TerminalEvents == {k \in DOMAIN events : events[k].type \in {"done", "error"}}

\* the contents of the chunk events, in their order
RECURSIVE ChunkEventContents(_)
ChunkEventContents(evs) ==
    IF evs = <<>> THEN <<>>
    ELSE IF Head(evs).type = "chunk"
         THEN <<Head(evs).content>> \o ChunkEventContents(Tail(evs))
         ELSE ChunkEventContents(Tail(evs))

TerminalEventIsLast ==
    /\ Cardinality(TerminalEvents) <= 1
    /\ TerminalEvents \subseteq {Len(events)}
    /\ TerminalEvents # {} <=> sse_pc \in {"done", "error"}
    /\ sse_pc = "done" =>
          /\ events[Len(events)].type = "done"
          /\ qa_pc = "completed"
          /\ ChunkEventContents(events) = [k \in DOMAIN yielded |-> yielded[k][1]]
    /\ sse_pc = "error" =>
          /\ events[Len(events)].type = "error"
          /\ qa_pc = "raised"

\* C28: the events of a stream hold at most one terminal event and it is the
\* last event: done, after the chunk events of every yielded text, when the
\* stream of the model completed, and error when it raised; and every
\* stream gets its terminal event.
InvC28_OneTerminalEvent ==
    []TerminalEventIsLast /\ <>(sse_pc \in {"done", "error"})

\* the model raised after a text: a chunk event, then the error event
WitC28_ErrorAfterChunk ==
    /\ sse_pc = "error"
    /\ Len(events) >= 2
    /\ events[1].type \in {"chunk", "system_message"}
    /\ events[Len(events)].type = "error"

GetCalls == {k \in DOMAIN call_log : call_log[k].op = "get"}

\* no reset lies between two calls
NoResetBetween(i, j) == \A k \in i..j : call_log[k].op = "get"

\* the call is the first call of get_llm_extractor since the start or a reset
FirstSinceReset(k) == k = 1 \/ call_log[k - 1].op = "reset"

\* C30: among calls of get_llm_extractor with no reset between them only the
\* first can attempt the construction, and all of them end alike: with the
\* same instance, or with 503 when the attempt failed or the key is missing;
\* the first call after a reset, like the first call of all, runs the
\* initialization again, attempting the construction when a key is set.
InvC30_InitializedOncePerReset ==
    /\ \A i, j \in GetCalls :
          (i < j /\ NoResetBetween(i, j)) =>
             /\ ~call_log[j].attempted
             /\ call_log[j].result = call_log[i].result
    /\ \A k \in GetCalls :
          /\ FirstSinceReset(k) => call_log[k].attempted = api_key_set
          /\ ~api_key_set => call_log[k].result = None
          /\ call_log[k].result # None =>
                \E i \in GetCalls :
                   /\ i <= k
                   /\ NoResetBetween(i, k)
                   /\ call_log[i].attempted
    /\ Cardinality({k \in GetCalls : call_log[k].attempted}) = constructed

\* a failed attempt, a second call that raises 503 without a new attempt, a
\* reset, and a call that attempts the construction again
WitC30_AttemptAgainAfterReset ==
    /\ Len(call_log) = 4
    /\ call_log[1] = [op |-> "get", attempted |-> TRUE, result |-> None]
    /\ call_log[2] = [op |-> "get", attempted |-> FALSE, result |-> None]
    /\ call_log[3].op = "reset"
    /\ call_log[4].op = "get"
    /\ call_log[4].attempted

====
